---- MODULE Spec2Model ----
(***************************************************************************)
(* Model of phx.Websocket (src/websocket.go): one Websocket object, the    *)
(* callers of its public API, and the connectionManager / writer / reader  *)
(* goroutines that every successful Connect starts.                        *)
(*                                                                         *)
(* Granularity: one action per synchronisation operation.  A call of a     *)
(* lock-guarded getter or setter (isStarted, connIsSet, setConn, ...) is    *)
(* one atomic step that needs the mutex to be free.  sendClose and         *)
(* sendReconnect keep the mutex while they block on their unbuffered       *)
(* channel, so `locked` stays TRUE from their send until a receiver takes  *)
(* the value.  Handler callbacks that the claims speak about are steps of  *)
(* their own; the others happen inside the step of the operation that      *)
(* precedes them.                                                          *)
(*                                                                         *)
(* The channel fields w.done, w.close, w.reconnect, w.send are read by the *)
(* goroutines without the lock while startup replaces them.  A read yields *)
(* the channels current at the step that reads them (`cur`); a goroutine    *)
(* blocked in a select keeps the channels it evaluated on entering it.     *)
(* An unrecovered Go panic ends the process: `panic` records it and no     *)
(* action is enabled afterwards.                                           *)
(***************************************************************************)
EXTENDS Integers, Sequences, FiniteSets, TLC

\* ---------------------------------------------------------------- bounds
NCallers == 1
MaxBackoff == 30
MaxSessions == 2
MaxDials == 2
MaxTries == 1
MaxSend == 2
MaxRecv == 2

\* ------------------------------------------------------ program constants
messageQueueLength == 100

Callers == 1..NCallers
Loops == 1..MaxSessions
Gens == 1..MaxSessions
Endpoints == 1..MaxDials
ZeroMessage == 0

\* ------------------------------------------------------- backoff policy
\* defaultReconnectAfterFunc (src/constants.go:19-26), in milliseconds.
schedule == <<10, 50, 100, 150, 200, 250, 500, 1000, 2000>>

\* The policy with its lower guard off by one: what C12 rules out.
defaultReconnectAfterFuncSkipsFirst(t) ==
    IF t > 0 /\ t < Len(schedule) THEN schedule[t + 1] ELSE 5000

defaultReconnectAfterFunc(t) ==
    IF t >= 0 /\ t < Len(schedule) THEN schedule[t + 1] ELSE 5000

VARIABLES
    started,       \* w.started
    closing,       \* w.closing
    reconnecting,  \* w.reconnecting
    conn,          \* w.conn: 0 is nil, e > 0 the handle of endpoint e
    connectionTries, \* w.connectionTries
    locked,        \* w.mu is held across steps (by a blocked sendClose/sendReconnect)
    cur,           \* which make(chan) generation w.done/w.close/w.reconnect/w.send hold; 0 is nil
    chanClosed,    \* chanClosed[g]: teardown has closed the channels of generation g
    queue,         \* queue[g]: the buffer of the send channel of generation g
    spawned,       \* number of startups that have launched their three goroutines
    api,           \* api[c]: the position of caller c inside a public method, and its last result
    mgr,           \* mgr[l]: the connectionManager goroutine of the l-th startup
    wr,            \* wr[l]: the writer goroutine of the l-th startup
    rd,            \* rd[l]: the reader goroutine of the l-th startup
    opens,         \* endpoints dialed successfully so far (endpoint ids 1..opens)
    epClosed,      \* endpoints on which conn.Close() was called
    onConnOpen,    \* onConnOpen[e]: OnConnOpen callbacks after dialing endpoint e
    onConnClose,   \* onConnClose[e]: OnConnClose callbacks after closing endpoint e
    written,       \* messages handed to an endpoint by WriteJSON, in order
    sent,          \* number of messages Send has enqueued (message ids 1..sent)
    onConnError,   \* number of OnConnError callbacks
    reconnectAfter, \* the arguments of the handler's ReconnectAfter calls, in order
    onWriteError,  \* the messages whose write was reported through OnWriteError
    onReadError,   \* number of OnReadError callbacks
    received,      \* number of messages read from the peer (message ids 1..received)
    onConnMessage, \* the messages forwarded to OnConnMessage, in order
    tries,         \* the argument of a call of defaultReconnectAfterFunc
    delay,         \* its result in milliseconds; -1 before the call
    panic          \* "none", or the runtime panic that ended the process

vars == <<started, closing, reconnecting, conn, connectionTries, locked, cur, chanClosed,
          queue, spawned, api, mgr, wr, rd, opens, epClosed, onConnOpen, onConnClose,
          written, sent, onConnError, reconnectAfter,
          onWriteError, onReadError, received, onConnMessage, tries, delay, panic>>

flags == <<started, closing, reconnecting, conn, connectionTries>>
chans == <<cur, chanClosed, queue>>
dialEvents == <<onConnError, reconnectAfter>>
ioEvents == <<onWriteError, onReadError, received, onConnMessage>>
events == <<dialEvents, ioEvents>>
backoff == <<tries, delay>>
hist == <<opens, epClosed, onConnOpen, onConnClose, written, sent, events, backoff>>

\* ------------------------------------------------------------ state lock
\* isStarted (src/websocket.go:290-295)
isStarted == started

\* isClosing (src/websocket.go:304-309)
isClosing == closing

\* connIsSet (src/websocket.go:356-361)
connIsSet == conn # 0

\* connIsReady (src/websocket.go:363-368)
connIsReady == started /\ ~closing /\ ~reconnecting /\ conn # 0

\* No goroutine has panicked: an unrecovered panic ends the whole process.
Running == panic = "none"

\* A goroutine blocked in `w.close <- true` / `w.reconnect <- true` on generation g.
closeSenders(g) == {c \in Callers : api[c].pc = "sendClose" /\ api[c].ch = g}
reconnectWriters(g) == {l \in Loops : wr[l].pc = "sendReconnect" /\ wr[l].ch = g}
reconnectReaders(g) == {l \in Loops : rd[l].pc = "sendReconnect" /\ rd[l].ch = g}
blockedSenders(g) == closeSenders(g) \cup reconnectWriters(g) \cup reconnectReaders(g)

ApiIdle == [pc |-> "idle", ret |-> "none", ch |-> 0]
NoLoop == [pc |-> "none", sel |-> 0, k |-> "none", e |-> 0]
NoWriter == [pc |-> "none", sel |-> 0, msg |-> 0, e |-> 0, ch |-> 0]
NoReader == [pc |-> "none", e |-> 0, ch |-> 0, err |-> "nil", msg |-> 0]

\* NewWebsocket (src/websocket.go:31-36): every field but dialer and handler is zero.
NewWebsocket ==
    /\ started = FALSE
    /\ closing = FALSE
    /\ reconnecting = FALSE
    /\ conn = 0
    /\ connectionTries = 0
    /\ locked = FALSE
    /\ cur = 0
    /\ chanClosed = [g \in Gens |-> FALSE]
    /\ queue = [g \in Gens |-> <<>>]
    /\ spawned = 0
    /\ api = [c \in Callers |-> ApiIdle]
    /\ mgr = [l \in Loops |-> NoLoop]
    /\ wr = [l \in Loops |-> NoWriter]
    /\ rd = [l \in Loops |-> NoReader]
    /\ opens = 0
    /\ epClosed = {}
    /\ onConnOpen = [e \in Endpoints |-> 0]
    /\ onConnClose = [e \in Endpoints |-> 0]
    /\ written = <<>>
    /\ sent = 0
    /\ onConnError = 0
    /\ reconnectAfter = <<>>
    /\ onWriteError = {}
    /\ onReadError = 0
    /\ received = 0
    /\ onConnMessage = <<>>
    /\ delay = -1
    /\ panic = "none"

\* The initial state: a new Websocket; the backoff policy has not been called.
Init == NewWebsocket /\ tries = 0

\* -------------------------------------------------------------- teardown
\* teardown, lines 97-100: close(w.done); close(w.close); close(w.reconnect); close(w.send).
\* Closing a closed channel panics; closing a channel wakes a blocked sender, which panics.
teardownChannels ==
    IF cur = 0
    THEN /\ panic' = "close of nil channel"
         /\ UNCHANGED chanClosed
    ELSE IF chanClosed[cur]
    THEN /\ panic' = "close of closed channel"
         /\ UNCHANGED chanClosed
    ELSE /\ chanClosed' = [chanClosed EXCEPT ![cur] = TRUE]
         /\ panic' = IF closeSenders(cur) # {} THEN "send on closed channel: close"
                     ELSE IF reconnectWriters(cur) \cup reconnectReaders(cur) # {}
                          THEN "send on closed channel: reconnect"
                          ELSE panic

\* teardown, line 102: w.setStarted(false)
teardownStarted ==
    /\ ~locked
    /\ started' = FALSE

\* teardown, lines 103-104: w.setReconnecting(false); w.setClosing(false)
teardownFlags ==
    /\ ~locked
    /\ reconnecting' = FALSE
    /\ closing' = FALSE

\* ------------------------------------------------------------ public API
\* Connect (src/websocket.go:38-45): the isStarted check.
Connect(c) ==
    /\ Running
    /\ api[c].pc = "idle"
    /\ ~locked
    /\ IF isStarted
       THEN api' = [api EXCEPT ![c] = [ApiIdle EXCEPT !.ret = "error: already started"]]
       ELSE api' = [api EXCEPT ![c] = [ApiIdle EXCEPT !.pc = "startup"]]
    /\ UNCHANGED <<flags, locked, chans, spawned, mgr, wr, rd, hist, panic>>

\* startup, lines 71-81: the attempt counter is reset and four new channels are made.
startupChannels(c) ==
    /\ Running
    /\ api[c].pc = "startup"
    /\ connectionTries' = 0
    /\ cur' = cur + 1
    /\ api' = [api EXCEPT ![c].pc = "startupGo"]
    /\ UNCHANGED <<started, closing, reconnecting, conn, locked, chanClosed, queue,
                   spawned, mgr, wr, rd, hist, panic>>

\* startup, lines 83-88: setReconnecting(false); setClosing(false); the three goroutines start.
startupGo(c) ==
    /\ Running
    /\ api[c].pc = "startupGo"
    /\ ~locked
    /\ reconnecting' = FALSE
    /\ closing' = FALSE
    /\ spawned' = spawned + 1
    /\ mgr' = [mgr EXCEPT ![spawned + 1] = [NoLoop EXCEPT !.pc = "top"]]
    /\ wr' = [wr EXCEPT ![spawned + 1] = [NoWriter EXCEPT !.pc = "top"]]
    /\ rd' = [rd EXCEPT ![spawned + 1] = [NoReader EXCEPT !.pc = "top"]]
    /\ api' = [api EXCEPT ![c].pc = "startupStarted"]
    /\ UNCHANGED <<started, conn, connectionTries, locked, chans, hist, panic>>

\* startup, line 90: w.setStarted(true); Connect returns nil.
startupStarted(c) ==
    /\ Running
    /\ api[c].pc = "startupStarted"
    /\ ~locked
    /\ started' = TRUE
    /\ api' = [api EXCEPT ![c] = [ApiIdle EXCEPT !.ret = "nil"]]
    /\ UNCHANGED <<closing, reconnecting, conn, connectionTries, locked, chans, spawned,
                   mgr, wr, rd, hist, panic>>

\* Disconnect without its isStarted check: what C8 rules out.
DisconnectNoCheck(c) ==
    /\ Running
    /\ api[c].pc = "idle"
    /\ ~locked
    /\ api' = [api EXCEPT ![c] = [ApiIdle EXCEPT !.pc = "connIsSet"]]
    /\ UNCHANGED <<flags, locked, chans, spawned, mgr, wr, rd, hist, panic>>

\* Disconnect (src/websocket.go:47-51): the isStarted check.
Disconnect(c) ==
    /\ Running
    /\ api[c].pc = "idle"
    /\ ~locked
    /\ IF ~isStarted
       THEN api' = [api EXCEPT ![c] = [ApiIdle EXCEPT !.ret = "error: not connected"]]
       ELSE api' = [api EXCEPT ![c] = [ApiIdle EXCEPT !.pc = "connIsSet"]]
    /\ UNCHANGED <<flags, locked, chans, spawned, mgr, wr, rd, hist, panic>>

\* Disconnect, lines 52-56: connIsSet chooses between sendClose and teardown.
DisconnectConnIsSet(c) ==
    /\ Running
    /\ api[c].pc = "connIsSet"
    /\ ~locked
    /\ api' = [api EXCEPT ![c].pc = IF connIsSet THEN "callSendClose" ELSE "teardown"]
    /\ UNCHANGED <<flags, locked, chans, spawned, mgr, wr, rd, hist, panic>>

\* sendClose (src/websocket.go:311-321): under the lock, return if closing is set, else
\* set it and send on w.close; the lock is kept until the manager receives.
sendClose(c) ==
    /\ Running
    /\ api[c].pc = "callSendClose"
    /\ ~locked
    /\ IF closing
       THEN /\ api' = [api EXCEPT ![c] = [ApiIdle EXCEPT !.ret = "nil"]]
            /\ UNCHANGED <<closing, locked, panic>>
       ELSE /\ closing' = TRUE
            /\ IF chanClosed[cur]
               THEN /\ panic' = "send on closed channel: close"
                    /\ UNCHANGED <<locked, api>>
               ELSE /\ locked' = TRUE
                    /\ api' = [api EXCEPT ![c].pc = "sendClose", ![c].ch = cur]
                    /\ UNCHANGED panic
    /\ UNCHANGED <<started, reconnecting, conn, connectionTries, chans, spawned, mgr, wr, rd, hist>>

\* Disconnect, line 55: teardown, its channel closes.
DisconnectTeardown(c) ==
    /\ Running
    /\ api[c].pc = "teardown"
    /\ teardownChannels
    /\ api' = [api EXCEPT ![c].pc = "teardownStarted"]
    /\ UNCHANGED <<flags, locked, cur, queue, spawned, mgr, wr, rd, hist>>

DisconnectTeardownStarted(c) ==
    /\ Running
    /\ api[c].pc = "teardownStarted"
    /\ teardownStarted
    /\ api' = [api EXCEPT ![c].pc = "teardownFlags"]
    /\ UNCHANGED <<closing, reconnecting, conn, connectionTries, locked, chans, spawned,
                   mgr, wr, rd, hist, panic>>

\* ... and Disconnect returns nil (line 57).
DisconnectTeardownFlags(c) ==
    /\ Running
    /\ api[c].pc = "teardownFlags"
    /\ teardownFlags
    /\ api' = [api EXCEPT ![c] = [ApiIdle EXCEPT !.ret = "nil"]]
    /\ UNCHANGED <<started, conn, connectionTries, locked, chans, spawned, mgr, wr, rd,
                   hist, panic>>

\* IsConnected (src/websocket.go:60-62)
IsConnected(c) ==
    /\ Running
    /\ api[c].pc = "idle"
    /\ ~locked
    /\ api' = [api EXCEPT ![c] = [ApiIdle EXCEPT !.ret = IF connIsReady THEN "true" ELSE "false"]]
    /\ UNCHANGED <<flags, locked, chans, spawned, mgr, wr, rd, hist, panic>>

\* Send (src/websocket.go:64-66): w.send <- msg.  A send on a nil channel blocks for ever,
\* a send on a closed channel panics, a send on a full channel blocks until there is room.
Send(c) ==
    /\ Running
    /\ api[c].pc = "idle"
    /\ sent < MaxSend
    /\ IF cur = 0
       THEN /\ api' = [api EXCEPT ![c] = [ApiIdle EXCEPT !.pc = "sendOnNil"]]
            /\ UNCHANGED <<queue, sent, panic>>
       ELSE IF chanClosed[cur]
       THEN /\ panic' = "send on closed channel: send"
            /\ UNCHANGED <<queue, sent, api>>
       ELSE /\ Len(queue[cur]) < messageQueueLength
            /\ sent' = sent + 1
            /\ queue' = [queue EXCEPT ![cur] = Append(@, sent + 1)]
            /\ api' = [api EXCEPT ![c] = ApiIdle]
            /\ UNCHANGED panic
    /\ UNCHANGED <<flags, locked, cur, chanClosed, spawned, mgr, wr, rd, opens, epClosed,
                   onConnOpen, onConnClose, written, events, backoff>>

\* ---------------------------------------------------- connectionManager
\* Where closeConn returns to: teardown after a close signal, the loop top after reconnect.
afterCloseConn(l) == IF mgr[l].k = "teardown" THEN "teardown" ELSE "top"

\* connectionManager, lines 168-172: the non-blocking check of w.done.
managerTop(l) ==
    /\ Running
    /\ mgr[l].pc = "top"
    /\ mgr' = [mgr EXCEPT ![l].pc = IF chanClosed[cur] THEN "exit" ELSE "check"]
    /\ UNCHANGED <<flags, locked, chans, spawned, api, wr, rd, hist, panic>>

\* connectionManager, line 174: dial when not closing and no conn is set; otherwise go
\* to the three-way select, whose channel operands are evaluated on entry.
managerCheck(l) ==
    /\ Running
    /\ mgr[l].pc = "check"
    /\ ~locked
    /\ mgr' = IF ~isClosing /\ ~connIsSet
              THEN [mgr EXCEPT ![l].pc = "Dial"]
              ELSE [mgr EXCEPT ![l].pc = "select", ![l].sel = cur]
    /\ UNCHANGED <<flags, locked, chans, spawned, api, wr, rd, hist, panic>>

\* A failed dial that asks the backoff policy after incrementing the counter: what C11
\* rules out.
dialFailsAsksLate(l) ==
    /\ Running
    /\ mgr[l].pc = "Dial"
    /\ ~locked
    /\ connectionTries < MaxTries
    /\ onConnError' = onConnError + 1
    /\ reconnecting' = TRUE
    /\ reconnectAfter' = Append(reconnectAfter, connectionTries + 1)
    /\ connectionTries' = connectionTries + 1
    /\ mgr' = [mgr EXCEPT ![l].pc = "top"]
    /\ UNCHANGED <<started, closing, conn, locked, chans, spawned, api, wr, rd, opens, epClosed,
                   onConnOpen, onConnClose, written, sent, ioEvents, panic, backoff>>

\* dial fails (lines 108-111, 176-182): OnConnError, setReconnecting(true),
\* ReconnectAfter(connectionTries), connectionTries++, sleep, continue.
dialFails(l) ==
    /\ Running
    /\ mgr[l].pc = "Dial"
    /\ ~locked
    /\ connectionTries < MaxTries
    /\ onConnError' = onConnError + 1
    /\ reconnecting' = TRUE
    /\ reconnectAfter' = Append(reconnectAfter, connectionTries)
    /\ connectionTries' = connectionTries + 1
    /\ mgr' = [mgr EXCEPT ![l].pc = "top"]
    /\ UNCHANGED <<started, closing, conn, locked, chans, spawned, api, wr, rd, opens, epClosed,
                   onConnOpen, onConnClose, written, sent, ioEvents, panic, backoff>>

\* dial succeeds (lines 108, 115): a new endpoint is open and setConn records it.
dialSucceeds(l) ==
    /\ Running
    /\ mgr[l].pc = "Dial"
    /\ ~locked
    /\ opens < MaxDials
    /\ opens' = opens + 1
    /\ conn' = opens + 1
    /\ mgr' = [mgr EXCEPT ![l].pc = "setReconnecting", ![l].e = opens + 1]
    /\ UNCHANGED <<started, closing, reconnecting, connectionTries, locked, chans, spawned,
                   api, wr, rd, epClosed, onConnOpen, onConnClose, written, sent, events, panic, backoff>>

\* dial, line 116: w.setReconnecting(false)
dialSetReconnecting(l) ==
    /\ Running
    /\ mgr[l].pc = "setReconnecting"
    /\ ~locked
    /\ reconnecting' = FALSE
    /\ mgr' = [mgr EXCEPT ![l].pc = "OnConnOpen"]
    /\ UNCHANGED <<started, closing, conn, connectionTries, locked, chans, spawned, api, wr,
                   rd, hist, panic>>

\* dial, line 117: w.handler.OnConnOpen(); then the select of line 186 is entered.
dialOnConnOpen(l) ==
    /\ Running
    /\ mgr[l].pc = "OnConnOpen"
    /\ onConnOpen' = [onConnOpen EXCEPT ![mgr[l].e] = @ + 1]
    /\ mgr' = [mgr EXCEPT ![l].pc = "select", ![l].sel = cur, ![l].e = 0]
    /\ UNCHANGED <<flags, locked, chans, spawned, api, wr, rd, opens, epClosed, onConnClose,
                   written, sent, events, panic, backoff>>

\* select, case <-w.done (lines 187-188)
selectDone(l) ==
    /\ Running
    /\ mgr[l].pc = "select"
    /\ chanClosed[mgr[l].sel]
    /\ mgr' = [mgr EXCEPT ![l].pc = "exit", ![l].sel = 0]
    /\ UNCHANGED <<flags, locked, chans, spawned, api, wr, rd, hist, panic>>

\* select, case <-w.close (lines 189-191): takes the value of a blocked sendClose, which
\* then returns and releases the lock, or the zero value of the closed channel.
selectClose(l) ==
    /\ Running
    /\ mgr[l].pc = "select"
    /\ \/ \E c \in closeSenders(mgr[l].sel) :
            /\ api' = [api EXCEPT ![c] = [ApiIdle EXCEPT !.ret = "nil"]]
            /\ locked' = FALSE
       \/ /\ chanClosed[mgr[l].sel]
          /\ UNCHANGED <<api, locked>>
    /\ mgr' = [mgr EXCEPT ![l].pc = "closeConn", ![l].k = "teardown", ![l].sel = 0]
    /\ UNCHANGED <<flags, chans, spawned, wr, rd, hist, panic>>

\* select, case <-w.reconnect (lines 192-193): takes the value of a blocked sendReconnect
\* of a writer or reader, or the zero value of the closed channel.
selectReconnect(l) ==
    /\ Running
    /\ mgr[l].pc = "select"
    /\ \/ \E m \in reconnectWriters(mgr[l].sel) :
            /\ wr' = [wr EXCEPT ![m].pc = "top", ![m].ch = 0, ![m].e = 0]
            /\ locked' = FALSE
            /\ UNCHANGED rd
       \/ \E m \in reconnectReaders(mgr[l].sel) :
            /\ rd' = [rd EXCEPT ![m].pc = "top", ![m].ch = 0, ![m].e = 0]
            /\ locked' = FALSE
            /\ UNCHANGED wr
       \/ /\ chanClosed[mgr[l].sel]
          /\ UNCHANGED <<wr, rd, locked>>
    /\ mgr' = [mgr EXCEPT ![l].pc = "closeConn", ![l].k = "loop", ![l].sel = 0]
    /\ UNCHANGED <<flags, chans, spawned, api, hist, panic>>

\* closeConn, lines 124-126: return when no conn is set.
closeConnIsSet(l) ==
    /\ Running
    /\ mgr[l].pc = "closeConn"
    /\ ~locked
    /\ mgr' = IF connIsSet
              THEN [mgr EXCEPT ![l].pc = "setClosing"]
              ELSE [mgr EXCEPT ![l].pc = afterCloseConn(l), ![l].k = "none"]
    /\ UNCHANGED <<flags, locked, chans, spawned, api, wr, rd, hist, panic>>

\* closeConn, line 128: w.setClosing(true)
closeConnSetClosing(l) ==
    /\ Running
    /\ mgr[l].pc = "setClosing"
    /\ ~locked
    /\ closing' = TRUE
    /\ mgr' = [mgr EXCEPT ![l].pc = "Close"]
    /\ UNCHANGED <<started, reconnecting, conn, connectionTries, locked, chans, spawned, api,
                   wr, rd, hist, panic>>

\* closeConn returning at once when the hard close fails, the handle left set and no
\* OnConnClose: what C17 rules out.
closeConnCloseReturnsOnError(l) ==
    /\ Running
    /\ mgr[l].pc = "Close"
    /\ IF conn = 0
       THEN /\ panic' = "nil pointer dereference: w.conn.WriteMessage"
            /\ UNCHANGED <<mgr, epClosed, onConnError>>
       ELSE /\ epClosed' = epClosed \cup {conn}
            /\ \E err \in BOOLEAN :
                  IF err
                  THEN /\ onConnError' = onConnError + 1
                       /\ mgr' = [mgr EXCEPT ![l].pc = afterCloseConn(l), ![l].k = "none"]
                  ELSE /\ onConnError' = onConnError
                       /\ mgr' = [mgr EXCEPT ![l].pc = "setConnNil", ![l].e = conn]
            /\ UNCHANGED panic
    /\ UNCHANGED <<flags, locked, chans, spawned, api, wr, rd, opens, onConnOpen,
                   onConnClose, written, sent, reconnectAfter, ioEvents, backoff>>

\* closeConn, lines 131-139: the close message and the hard close, both on w.conn read
\* without the lock (a nil handle is a nil-pointer dereference).  The close message may
\* fail or not (it only decides the 250 ms sleep); an error of the hard close goes to
\* OnConnError.
closeConnClose(l) ==
    /\ Running
    /\ mgr[l].pc = "Close"
    /\ IF conn = 0
       THEN /\ panic' = "nil pointer dereference: w.conn.WriteMessage"
            /\ UNCHANGED <<mgr, epClosed, onConnError>>
       ELSE /\ epClosed' = epClosed \cup {conn}
            /\ \E err \in BOOLEAN : onConnError' = IF err THEN onConnError + 1 ELSE onConnError
            /\ mgr' = [mgr EXCEPT ![l].pc = "setConnNil", ![l].e = conn]
            /\ UNCHANGED panic
    /\ UNCHANGED <<flags, locked, chans, spawned, api, wr, rd, opens, onConnOpen,
                   onConnClose, written, sent, reconnectAfter, ioEvents, backoff>>

\* closeConn, line 141: w.setConn(nil)
closeConnSetConn(l) ==
    /\ Running
    /\ mgr[l].pc = "setConnNil"
    /\ ~locked
    /\ conn' = 0
    /\ mgr' = [mgr EXCEPT ![l].pc = "OnConnClose"]
    /\ UNCHANGED <<started, closing, reconnecting, connectionTries, locked, chans, spawned,
                   api, wr, rd, hist, panic>>

\* closeConn, line 142: w.handler.OnConnClose()
closeConnOnConnClose(l) ==
    /\ Running
    /\ mgr[l].pc = "OnConnClose"
    /\ onConnClose' = [onConnClose EXCEPT ![mgr[l].e] = @ + 1]
    /\ mgr' = [mgr EXCEPT ![l].pc = "clearClosing"]
    /\ UNCHANGED <<flags, locked, chans, spawned, api, wr, rd, opens, epClosed, onConnOpen,
                   written, sent, events, panic, backoff>>

\* closeConn, line 143: w.setClosing(false), and closeConn returns.
closeConnClearClosing(l) ==
    /\ Running
    /\ mgr[l].pc = "clearClosing"
    /\ ~locked
    /\ closing' = FALSE
    /\ mgr' = [mgr EXCEPT ![l].pc = afterCloseConn(l), ![l].k = "none", ![l].e = 0]
    /\ UNCHANGED <<started, reconnecting, conn, connectionTries, locked, chans, spawned, api,
                   wr, rd, hist, panic>>

\* connectionManager, line 191: teardown after closeConn on the close signal.
managerTeardown(l) ==
    /\ Running
    /\ mgr[l].pc = "teardown"
    /\ teardownChannels
    /\ mgr' = [mgr EXCEPT ![l].pc = "teardownStarted"]
    /\ UNCHANGED <<flags, locked, cur, queue, spawned, api, wr, rd, hist>>

managerTeardownStarted(l) ==
    /\ Running
    /\ mgr[l].pc = "teardownStarted"
    /\ teardownStarted
    /\ mgr' = [mgr EXCEPT ![l].pc = "teardownFlags"]
    /\ UNCHANGED <<closing, reconnecting, conn, connectionTries, locked, chans, spawned, api,
                   wr, rd, hist, panic>>

managerTeardownFlags(l) ==
    /\ Running
    /\ mgr[l].pc = "teardownFlags"
    /\ teardownFlags
    /\ mgr' = [mgr EXCEPT ![l].pc = "top"]
    /\ UNCHANGED <<started, conn, connectionTries, locked, chans, spawned, api, wr, rd, hist, panic>>

\* --------------------------------------------------------- sendReconnect
\* sendReconnect (src/websocket.go:337-347), up to the channel send: TRUE when the caller
\* goes on to send (it then holds the lock), FALSE when it returns at once.
sendReconnectSignals == ~(reconnecting \/ closing)

\* ---------------------------------------------------------------- writer
\* writer, lines 204-213: exit when w.done is closed; poll until connIsReady; then enter
\* the select of line 217.
writerTop(l) ==
    /\ Running
    /\ wr[l].pc = "top"
    /\ IF chanClosed[cur]
       THEN wr' = [wr EXCEPT ![l].pc = "exit"]
       ELSE /\ ~locked
            /\ connIsReady
            /\ wr' = [wr EXCEPT ![l].pc = "select", ![l].sel = cur]
    /\ UNCHANGED <<flags, locked, chans, spawned, api, mgr, rd, hist, panic>>

\* select, case <-w.done (lines 218-219)
writerSelectDone(l) ==
    /\ Running
    /\ wr[l].pc = "select"
    /\ chanClosed[wr[l].sel]
    /\ wr' = [wr EXCEPT ![l].pc = "exit", ![l].sel = 0]
    /\ UNCHANGED <<flags, locked, chans, spawned, api, mgr, rd, hist, panic>>

\* select, case msg := <-w.send (line 220): the oldest queued message, or the zero
\* Message once the channel is closed and drained.
writerSelectSend(l) ==
    /\ Running
    /\ wr[l].pc = "select"
    /\ IF queue[wr[l].sel] # <<>>
       THEN /\ wr' = [wr EXCEPT ![l].pc = "recheck", ![l].msg = Head(queue[wr[l].sel]), ![l].sel = 0]
            /\ queue' = [queue EXCEPT ![wr[l].sel] = Tail(@)]
       ELSE /\ chanClosed[wr[l].sel]
            /\ wr' = [wr EXCEPT ![l].pc = "recheck", ![l].msg = ZeroMessage, ![l].sel = 0]
            /\ UNCHANGED queue
    /\ UNCHANGED <<flags, locked, cur, chanClosed, spawned, api, mgr, rd, hist, panic>>

\* writer, lines 222-225: not ready any more: sleep and continue (msg is dropped).
writerRecheck(l) ==
    /\ Running
    /\ wr[l].pc = "recheck"
    /\ ~locked
    /\ wr' = IF connIsReady
             THEN [wr EXCEPT ![l].pc = "writeToConn"]
             ELSE [wr EXCEPT ![l].pc = "top", ![l].msg = 0]
    /\ UNCHANGED <<flags, locked, chans, spawned, api, mgr, rd, hist, panic>>

\* writeToConn, lines 147-149: the readiness check; its error goes to OnWriteError (line 232).
writerWriteToConn(l) ==
    /\ Running
    /\ wr[l].pc = "writeToConn"
    /\ ~locked
    /\ IF connIsReady
       THEN /\ wr' = [wr EXCEPT ![l].pc = "WriteJSON"]
            /\ UNCHANGED onWriteError
       ELSE /\ wr' = [wr EXCEPT ![l].pc = "callSendReconnect", ![l].msg = 0]
            /\ onWriteError' = onWriteError \cup {wr[l].msg}
    /\ UNCHANGED <<flags, locked, chans, spawned, api, mgr, rd, opens, epClosed, onConnOpen,
                   onConnClose, written, sent, dialEvents, onReadError, received,
                   onConnMessage, backoff, panic>>

\* writeToConn, line 151: w.conn.WriteJSON(msg) on w.conn read without the lock.  The
\* write succeeds only on an endpoint that is still open; it may always fail, and the
\* failure goes to OnWriteError (line 232).
writerWriteJSON(l) ==
    /\ Running
    /\ wr[l].pc = "WriteJSON"
    /\ IF conn = 0
       THEN /\ panic' = "nil pointer dereference: w.conn.WriteJSON"
            /\ UNCHANGED <<wr, written, onWriteError>>
       ELSE /\ \/ /\ conn \notin epClosed
                  /\ written' = Append(written, wr[l].msg)
                  /\ wr' = [wr EXCEPT ![l].pc = "top", ![l].msg = 0]
                  /\ UNCHANGED onWriteError
               \/ /\ wr' = [wr EXCEPT ![l].pc = "callSendReconnect", ![l].msg = 0, ![l].e = conn]
                  /\ onWriteError' = onWriteError \cup {wr[l].msg}
                  /\ UNCHANGED written
            /\ UNCHANGED panic
    /\ UNCHANGED <<flags, locked, chans, spawned, api, mgr, rd, opens, epClosed,
                   onConnOpen, onConnClose, sent, dialEvents, onReadError, received,
                   onConnMessage, backoff>>

\* writer, lines 233-235: sendReconnect, then sleep and continue.
writerSendReconnect(l) ==
    /\ Running
    /\ wr[l].pc = "callSendReconnect"
    /\ ~locked
    /\ IF ~sendReconnectSignals
       THEN /\ wr' = [wr EXCEPT ![l].pc = "top", ![l].e = 0]
            /\ UNCHANGED <<reconnecting, locked, panic>>
       ELSE /\ reconnecting' = TRUE
            /\ IF chanClosed[cur]
               THEN /\ panic' = "send on closed channel: reconnect"
                    /\ UNCHANGED <<locked, wr>>
               ELSE /\ locked' = TRUE
                    /\ wr' = [wr EXCEPT ![l].pc = "sendReconnect", ![l].ch = cur]
                    /\ UNCHANGED panic
    /\ UNCHANGED <<started, closing, conn, connectionTries, chans, spawned, api, mgr, rd, hist>>

\* ---------------------------------------------------------------- reader
\* reader, lines 247-260: exit when w.done is closed; poll until connIsReady.
readerTop(l) ==
    /\ Running
    /\ rd[l].pc = "top"
    /\ IF chanClosed[cur]
       THEN rd' = [rd EXCEPT ![l].pc = "exit"]
       ELSE /\ ~locked
            /\ connIsReady
            /\ rd' = [rd EXCEPT ![l].pc = "readFromConn"]
    /\ UNCHANGED <<flags, locked, chans, spawned, api, mgr, wr, hist, panic>>

\* readFromConn, lines 155-157: the readiness check; its error is no close error.
readerReadFromConn(l) ==
    /\ Running
    /\ rd[l].pc = "readFromConn"
    /\ ~locked
    /\ rd' = IF connIsReady
             THEN [rd EXCEPT ![l].pc = "ReadJSON"]
             ELSE [rd EXCEPT ![l].pc = "err", ![l].err = "connection is not open"]
    /\ UNCHANGED <<flags, locked, chans, spawned, api, mgr, wr, hist, panic>>

\* readFromConn, line 159: w.conn.ReadJSON(msg) starts on w.conn read without the lock.
readerReadJSON(l) ==
    /\ Running
    /\ rd[l].pc = "ReadJSON"
    /\ IF conn = 0
       THEN /\ panic' = "nil pointer dereference: w.conn.ReadJSON"
            /\ UNCHANGED rd
       ELSE /\ rd' = [rd EXCEPT ![l].pc = "reading", ![l].e = conn]
            /\ UNCHANGED panic
    /\ UNCHANGED <<flags, locked, chans, spawned, api, mgr, wr, hist>>

\* The blocking read returns the peer's next message (line 265, err == nil); the peer
\* sends at most MaxRecv messages.
readerMessage(l) ==
    /\ Running
    /\ rd[l].pc = "reading"
    /\ rd[l].e \notin epClosed
    /\ received < MaxRecv
    /\ received' = received + 1
    /\ rd' = [rd EXCEPT ![l].pc = "OnConnMessage", ![l].msg = received + 1, ![l].e = 0]
    /\ UNCHANGED <<flags, locked, chans, spawned, api, mgr, wr, opens, epClosed, onConnOpen,
                   onConnClose, written, sent, dialEvents, onWriteError, onReadError,
                   onConnMessage, backoff, panic>>

\* reader, line 279: w.handler.OnConnMessage(msg), next iteration.
readerOnConnMessage(l) ==
    /\ Running
    /\ rd[l].pc = "OnConnMessage"
    /\ onConnMessage' = Append(onConnMessage, rd[l].msg)
    /\ rd' = [rd EXCEPT ![l].pc = "top", ![l].msg = 0]
    /\ UNCHANGED <<flags, locked, chans, spawned, api, mgr, wr, opens, epClosed, onConnOpen,
                   onConnClose, written, sent, dialEvents, onWriteError, onReadError,
                   received, backoff, panic>>

\* The blocking read fails with a close error of code 1000 (line 265, err != nil).
readerNormalClosure(l) ==
    /\ Running
    /\ rd[l].pc = "reading"
    /\ rd' = [rd EXCEPT ![l].pc = "err", ![l].err = "close 1000"]
    /\ UNCHANGED <<flags, locked, chans, spawned, api, mgr, wr, hist, panic>>

\* The blocking read fails with any other error (line 265, err != nil).
readerReadError(l) ==
    /\ Running
    /\ rd[l].pc = "reading"
    /\ rd' = [rd EXCEPT ![l].pc = "err", ![l].err = "read error"]
    /\ UNCHANGED <<flags, locked, chans, spawned, api, mgr, wr, hist, panic>>

\* A reader that reports the normal closure like any other error: what C18 rules out.
readerIsCloseErrorReportsAll(l) ==
    /\ Running
    /\ rd[l].pc = "err"
    /\ onReadError' = onReadError + 1
    /\ rd' = [rd EXCEPT ![l].pc = "callSendReconnect", ![l].err = "nil"]
    /\ UNCHANGED <<flags, locked, chans, spawned, api, mgr, wr, opens, epClosed, onConnOpen,
                   onConnClose, written, sent, dialEvents, onWriteError, received,
                   onConnMessage, backoff, panic>>

\* reader, lines 268-276: a close error of code 1000 is passed over (sleep, continue);
\* any other error goes to OnReadError and sendReconnect follows.
readerIsCloseError(l) ==
    /\ Running
    /\ rd[l].pc = "err"
    /\ IF rd[l].err = "close 1000"
       THEN /\ rd' = [rd EXCEPT ![l].pc = "top", ![l].err = "nil", ![l].e = 0]
            /\ UNCHANGED onReadError
       ELSE /\ onReadError' = onReadError + 1
            /\ rd' = [rd EXCEPT ![l].pc = "callSendReconnect", ![l].err = "nil"]
    /\ UNCHANGED <<flags, locked, chans, spawned, api, mgr, wr, opens, epClosed, onConnOpen,
                   onConnClose, written, sent, dialEvents, onWriteError, received,
                   onConnMessage, backoff, panic>>

\* reader, lines 272-276: sendReconnect, then sleep and continue.
readerSendReconnect(l) ==
    /\ Running
    /\ rd[l].pc = "callSendReconnect"
    /\ ~locked
    /\ IF ~sendReconnectSignals
       THEN /\ rd' = [rd EXCEPT ![l].pc = "top", ![l].e = 0]
            /\ UNCHANGED <<reconnecting, locked, panic>>
       ELSE /\ reconnecting' = TRUE
            /\ IF chanClosed[cur]
               THEN /\ panic' = "send on closed channel: reconnect"
                    /\ UNCHANGED <<locked, rd>>
               ELSE /\ locked' = TRUE
                    /\ rd' = [rd EXCEPT ![l].pc = "sendReconnect", ![l].ch = cur]
                    /\ UNCHANGED panic
    /\ UNCHANGED <<started, closing, conn, connectionTries, chans, spawned, api, mgr, wr, hist>>

\* ------------------------------------------------------------ the system
\* Fewer than n sessions have been started or are being started.
SessionsBelow(n) == cur + Cardinality({d \in Callers : api[d].pc = "startup"}) < n

\* One session: the callers use the whole API, Connect succeeds at most once, and the
\* dialer and the endpoint may fail at any time; the peer sends no messages.
Next ==
    \/ \E c \in Callers : Connect(c) /\ (api'[c].pc = "startup" => SessionsBelow(1))
    \/ \E c \in Callers : startupChannels(c)
    \/ \E c \in Callers : startupGo(c)
    \/ \E c \in Callers : startupStarted(c)
    \/ \E c \in Callers : Disconnect(c)
    \/ \E c \in Callers : DisconnectConnIsSet(c)
    \/ \E c \in Callers : sendClose(c)
    \/ \E c \in Callers : DisconnectTeardown(c)
    \/ \E c \in Callers : DisconnectTeardownStarted(c)
    \/ \E c \in Callers : DisconnectTeardownFlags(c)
    \/ \E c \in Callers : IsConnected(c)
    \/ \E c \in Callers : Send(c)
    \/ \E l \in Loops : managerTop(l)
    \/ \E l \in Loops : managerCheck(l)
    \/ \E l \in Loops : dialFails(l)
    \/ \E l \in Loops : dialSucceeds(l)
    \/ \E l \in Loops : dialSetReconnecting(l)
    \/ \E l \in Loops : dialOnConnOpen(l)
    \/ \E l \in Loops : selectDone(l)
    \/ \E l \in Loops : selectClose(l)
    \/ \E l \in Loops : selectReconnect(l)
    \/ \E l \in Loops : closeConnIsSet(l)
    \/ \E l \in Loops : closeConnSetClosing(l)
    \/ \E l \in Loops : closeConnClose(l)
    \/ \E l \in Loops : closeConnSetConn(l)
    \/ \E l \in Loops : closeConnOnConnClose(l)
    \/ \E l \in Loops : closeConnClearClosing(l)
    \/ \E l \in Loops : managerTeardown(l)
    \/ \E l \in Loops : managerTeardownStarted(l)
    \/ \E l \in Loops : managerTeardownFlags(l)
    \/ \E l \in Loops : writerTop(l)
    \/ \E l \in Loops : writerSelectDone(l)
    \/ \E l \in Loops : writerSelectSend(l)
    \/ \E l \in Loops : writerRecheck(l)
    \/ \E l \in Loops : writerWriteToConn(l)
    \/ \E l \in Loops : writerWriteJSON(l)
    \/ \E l \in Loops : writerSendReconnect(l)
    \/ \E l \in Loops : readerTop(l)
    \/ \E l \in Loops : readerReadFromConn(l)
    \/ \E l \in Loops : readerReadJSON(l)
    \/ \E l \in Loops : readerIsCloseError(l)
    \/ \E l \in Loops : readerNormalClosure(l)
    \/ \E l \in Loops : readerReadError(l)
    \/ \E l \in Loops : readerSendReconnect(l)

Spec == Init /\ [][Next]_vars

\* Restart scenario: the caller disconnects while the first dial is still in flight and
\* connects again at once, then sends; the network is reliable (a dial succeeds, no
\* write or read fails, the peer sends nothing) and the last session is left running.
\* Only the actions this scenario can take are listed.
callRestart(c) ==
    \/ Connect(c) /\ api'[c].pc = "startup" /\ SessionsBelow(MaxSessions)
    \/ Disconnect(c) /\ api'[c].pc = "connIsSet" /\ cur < MaxSessions
    \/ Send(c) /\ cur = MaxSessions

callInProgressRestart(c) ==
    \/ startupChannels(c)
    \/ startupGo(c)
    \/ startupStarted(c)
    \/ DisconnectConnIsSet(c)
    \/ DisconnectTeardown(c)
    \/ DisconnectTeardownStarted(c)
    \/ DisconnectTeardownFlags(c)

connectionManagerRestart(l) ==
    \/ managerTop(l)
    \/ managerCheck(l)
    \/ dialSucceeds(l) /\ cur = MaxSessions
    \/ dialSetReconnecting(l)
    \/ dialOnConnOpen(l)

writerRestart(l) ==
    \/ writerTop(l)
    \/ writerSelectSend(l)
    \/ writerRecheck(l)
    \/ writerWriteToConn(l)
    \/ writerWriteJSON(l) /\ wr'[l].pc = "top"

readerRestart(l) ==
    \/ readerTop(l)
    \/ readerReadFromConn(l)
    \/ readerReadJSON(l)

NextRestart ==
    \/ \E c \in Callers : callRestart(c)
    \/ \E c \in Callers : callInProgressRestart(c)
    \/ \E l \in Loops : connectionManagerRestart(l)
    \/ \E l \in Loops : writerRestart(l)
    \/ \E l \in Loops : readerRestart(l)

SpecRestart == Init /\ [][NextRestart]_vars

\* The scenario under the scheduler's fairness.
SpecRestartFair ==
    /\ Init /\ [][NextRestart]_vars
    /\ \A l \in Loops : WF_vars(connectionManagerRestart(l))
    /\ \A l \in Loops : WF_vars(writerRestart(l))
    /\ \A l \in Loops : WF_vars(readerRestart(l))
    /\ \A c \in Callers : WF_vars(callInProgressRestart(c))

\* ---------------------------------------------------------------- fairness
\* The three loops, as the goroutines the Go scheduler runs.
connectionManager(l) ==
    \/ managerTop(l) \/ managerCheck(l)
    \/ dialFails(l) \/ dialSucceeds(l) \/ dialSetReconnecting(l) \/ dialOnConnOpen(l)
    \/ selectDone(l) \/ selectClose(l) \/ selectReconnect(l)
    \/ closeConnIsSet(l) \/ closeConnSetClosing(l) \/ closeConnClose(l)
    \/ closeConnSetConn(l) \/ closeConnOnConnClose(l) \/ closeConnClearClosing(l)
    \/ managerTeardown(l) \/ managerTeardownStarted(l) \/ managerTeardownFlags(l)

writer(l) ==
    \/ writerTop(l) \/ writerSelectDone(l) \/ writerSelectSend(l) \/ writerRecheck(l)
    \/ writerWriteToConn(l) \/ writerWriteJSON(l) \/ writerSendReconnect(l)

reader(l) ==
    \/ readerTop(l) \/ readerReadFromConn(l) \/ readerReadJSON(l) \/ readerMessage(l)
    \/ readerOnConnMessage(l) \/ readerNormalClosure(l) \/ readerReadError(l)
    \/ readerIsCloseError(l) \/ readerSendReconnect(l)

\* A caller inside Connect or Disconnect goes on executing it.
callInProgress(c) ==
    \/ startupChannels(c) \/ startupGo(c) \/ startupStarted(c)
    \/ DisconnectConnIsSet(c) \/ sendClose(c)
    \/ DisconnectTeardown(c) \/ DisconnectTeardownStarted(c) \/ DisconnectTeardownFlags(c)

\* Go schedules every runnable goroutine: a loop or a call that can take a step
\* eventually takes one.  Nothing obliges a caller to start a new call.
Fairness ==
    /\ \A l \in Loops : WF_vars(connectionManager(l))
    /\ \A l \in Loops : WF_vars(writer(l))
    /\ \A l \in Loops : WF_vars(reader(l))
    /\ \A c \in Callers : WF_vars(callInProgress(c))

SpecFair == Init /\ [][Next]_vars /\ Fairness

\* Recovery scenario: one session that is never disconnected; the caller connects and
\* sends, and the dialer and the endpoint may fail at any time.  Only the actions this
\* scenario can take are listed.
callRecover(c) ==
    \/ Connect(c) /\ api'[c].pc = "startup" /\ SessionsBelow(1)
    \/ Send(c)

callInProgressRecover(c) ==
    \/ startupChannels(c)
    \/ startupGo(c)
    \/ startupStarted(c)

connectionManagerRecover(l) ==
    \/ managerTop(l)
    \/ managerCheck(l)
    \/ dialFails(l)
    \/ dialSucceeds(l)
    \/ dialSetReconnecting(l)
    \/ dialOnConnOpen(l)
    \/ selectReconnect(l)
    \/ closeConnIsSet(l)
    \/ closeConnSetClosing(l)
    \/ closeConnClose(l)
    \/ closeConnSetConn(l)
    \/ closeConnOnConnClose(l)
    \/ closeConnClearClosing(l)

writerRecover(l) ==
    \/ writerTop(l)
    \/ writerSelectSend(l)
    \/ writerRecheck(l)
    \/ writerWriteToConn(l)
    \/ writerWriteJSON(l)
    \/ writerSendReconnect(l)

NextRecover ==
    \/ \E c \in Callers : callRecover(c)
    \/ \E c \in Callers : callInProgressRecover(c)
    \/ \E l \in Loops : connectionManagerRecover(l)
    \/ \E l \in Loops : writerRecover(l)
    \/ \E l \in Loops : reader(l)

SpecRecover == Init /\ [][NextRecover]_vars

\* The scenario under the scheduler's fairness; the dialer fails at most MaxTries times,
\* so that a manager that keeps dialing eventually succeeds.
SpecRecoverFair ==
    /\ Init /\ [][NextRecover]_vars
    /\ \A l \in Loops : WF_vars(connectionManagerRecover(l))
    /\ \A l \in Loops : WF_vars(writerRecover(l))
    /\ \A l \in Loops : WF_vars(reader(l))
    /\ \A c \in Callers : WF_vars(callInProgressRecover(c))

\* Backoff scenario: the default backoff policy is called once, on any attempt index
\* from -MaxBackoff to MaxBackoff.
InitBackoff == NewWebsocket /\ tries \in (0 - MaxBackoff)..MaxBackoff

callDefaultReconnectAfterFunc ==
    /\ Running
    /\ delay = -1
    /\ delay' = defaultReconnectAfterFunc(tries)
    /\ UNCHANGED <<flags, locked, chans, spawned, api, mgr, wr, rd, opens, epClosed, onConnOpen,
                   onConnClose, written, sent, events, tries, panic>>

NextBackoff == callDefaultReconnectAfterFunc

SpecBackoff == InitBackoff /\ [][NextBackoff]_vars

\* ------------------------------------------------------------- the claims
\* C1: at most one endpoint is live: the number of successful dials never exceeds the
\* number of hard-closed endpoints plus one, also across Disconnect and a new Connect.
C1_AtMostOneLive == opens <= Cardinality(epClosed) + 1

\* C2: teardown runs at most once per session: no channel of a session is closed twice
\* (Go panics with "close of closed channel" on the second close).
C2_TeardownOnce == panic # "close of closed channel"

\* C3: no send is performed or left pending on the close or reconnect channel once
\* teardown has closed it (Go panics with "send on closed channel").
C3_NoSendAfterClose ==
    /\ panic \notin {"send on closed channel: close", "send on closed channel: reconnect"}
    /\ \A g \in Gens : chanClosed[g] => blockedSenders(g) = {}

\* C4: the messages handed to the endpoint are in the order Send enqueued them (message
\* ids grow in enqueue order), none twice.  The zero Message a writer receives from the
\* closed send channel was never enqueued and is left out of the comparison.
C4_WrittenInOrder ==
    \A i \in 1..Len(written) : \A j \in 1..Len(written) :
        i < j /\ written[i] # ZeroMessage /\ written[j] # ZeroMessage => written[i] < written[j]

\* C5: a Disconnect that finds an endpoint live leads to exactly one OnConnClose for that
\* endpoint, followed by teardown.
C5_DisconnectClosesOnce ==
    \A e \in Endpoints :
        /\ [](onConnClose[e] <= 1)
        /\ []((\E c \in Callers : api[c].pc = "callSendClose" /\ conn = e)
                => <>(onConnClose[e] = 1 /\ \E g \in Gens : chanClosed[g]))

\* Caller c returns from a Disconnect call with a nil error in this step.
DisconnectReturnsNil(c) ==
    /\ api[c].pc \in {"callSendClose", "sendClose", "teardownFlags"}
    /\ api'[c].pc = "idle"

\* C6: when Disconnect returns without error the session is not started: started, closing
\* and reconnecting are all false, as if no session had ever started.
C6_NotStartedAfterDisconnect ==
    [][\A c \in Callers :
          DisconnectReturnsNil(c) => ~started' /\ ~closing' /\ ~reconnecting']_vars

\* C7: once the done channel of a session is closed, the loops started for that session
\* all eventually exit, whatever API calls follow.  Stated for the writer and the reader:
\* in the restart scenario the manager of the first session may still be inside Dial.
C7_LoopsExitAfterDone ==
    \A l \in Loops :
        [](chanClosed[l] => <>(wr[l].pc = "exit" /\ rd[l].pc = "exit"))

\* C8: lifecycle misuse is rejected without side effects: Connect on a started session
\* and Disconnect on a session that is not started return their error and leave every
\* flag, channel, the queue, the attempt counter, the endpoint handle and the loops as
\* they were (no second set of loops is launched).
C8_MisuseRejected ==
    [][\A c \in Callers :
          /\ started /\ Connect(c) =>
                /\ api'[c] = [ApiIdle EXCEPT !.ret = "error: already started"]
                /\ UNCHANGED <<flags, locked, chans, spawned, mgr, wr, rd, hist, panic>>
          /\ ~started /\ Disconnect(c) =>
                /\ api'[c] = [ApiIdle EXCEPT !.ret = "error: not connected"]
                /\ UNCHANGED <<flags, locked, chans, spawned, mgr, wr, rd, hist, panic>>]_vars

\* C8, witness: a second Connect was rejected while the loops of the session run.
C8_Witness ==
    \E c \in Callers :
        /\ api[c].ret = "error: already started"
        /\ started /\ spawned = 1 /\ mgr[1].pc = "select" /\ conn # 0

\* No caller is inside Connect: every Connect call made so far has returned.
ConnectReturned == \A c \in Callers : api[c].pc \notin {"startup", "startupGo", "startupStarted"}

\* C9: once Connect has returned, IsConnected is false until the first successful dial,
\* true when the handler receives OnConnOpen (unless a close or reconnect signal has
\* been raised meanwhile), and false when it receives OnConnClose.
C9_IsConnectedAtCallbacks ==
    ConnectReturned =>
        /\ opens = 0 => ~connIsReady
        /\ \A l \in Loops : mgr[l].pc = "OnConnOpen" => connIsReady \/ closing \/ reconnecting
        /\ \A l \in Loops : mgr[l].pc = "OnConnClose" => ~connIsReady

\* The reconnect signals pending on the reconnect channel of generation g.
pendingReconnects(g) == reconnectWriters(g) \cup reconnectReaders(g)

\* The handler has received OnConnOpen for an endpoint dialed after endpoint e.
FreshOnConnOpen(e) == \E f \in Endpoints : f > e /\ onConnOpen[f] >= 1

\* C10: a write failure on a live endpoint recovers: after OnWriteError the handler
\* eventually receives OnConnClose for the failed endpoint and then a fresh OnConnOpen
\* (no Disconnect, fair scheduling, the dialer eventually succeeds); and never more than
\* one reconnect signal is pending.
C10_WriteFailureRecovers ==
    /\ [](\A g \in Gens : Cardinality(pendingReconnects(g)) <= 1)
    /\ \A l \in Loops : \A e \in 1..(MaxDials - 1) :
          [](wr[l].pc = "callSendReconnect" /\ wr[l].e = e
                => <>(onConnClose[e] >= 1 /\ FreshOnConnOpen(e)))

\* Manager l returns from dial with an error in this step.
DialFailed(l) == mgr[l].pc = "Dial" /\ mgr'[l].pc = "top"

\* Manager l takes a step of a dial that succeeds: setConn, setReconnecting(false) or
\* OnConnOpen.
DialSucceeding(l) ==
    /\ mgr[l].pc \in {"Dial", "setReconnecting", "OnConnOpen"}
    /\ mgr'[l].pc \in {"setReconnecting", "OnConnOpen", "select"}
    /\ mgr'[l].pc # mgr[l].pc

\* C11: dial accounting.  The attempt counter is 0 when a session starts and never
\* decreases within a session; a failed dial calls OnConnError once, sets reconnecting,
\* asks ReconnectAfter with the counter's value before the increment and adds exactly one
\* to the counter; a successful dial leaves the counter alone, clears reconnecting and
\* calls OnConnOpen once for its endpoint.
C11_DialAccounting ==
    [][/\ \A c \in Callers : api[c].pc = "startup" /\ api'[c].pc # "startup"
                                => connectionTries' = 0
       /\ cur' = cur => connectionTries' >= connectionTries
       /\ \A l \in Loops : DialFailed(l) =>
             /\ onConnError' = onConnError + 1
             /\ reconnecting'
             /\ reconnectAfter' = Append(reconnectAfter, connectionTries)
             /\ connectionTries' = connectionTries + 1
             /\ UNCHANGED onConnOpen
       /\ \A l \in Loops : DialSucceeding(l) =>
             /\ UNCHANGED <<connectionTries, onConnError, reconnectAfter>>
             /\ mgr[l].pc = "setReconnecting" => ~reconnecting'
             /\ mgr[l].pc = "OnConnOpen" =>
                   onConnOpen' = [onConnOpen EXCEPT ![mgr[l].e] = 1]
             /\ mgr[l].pc # "OnConnOpen" => UNCHANGED onConnOpen]_vars

\* C11, witness: one failed dial followed by a successful one, nothing closed yet: the
\* handler saw OnConnError once, then OnConnOpen once, the counter went from 0 to 1.
C11_Witness ==
    /\ epClosed = {}
    /\ onConnError = 1 /\ reconnectAfter = <<0>> /\ connectionTries = 1
    /\ onConnOpen[1] = 1 /\ \E l \in Loops : mgr[l].pc = "select"

\* C12: the default backoff policy returns 10, 50, 100, 150, 200, 250, 500, 1000, 2000 ms
\* for the attempt indices 0..8 and 5000 ms for every other index, negative ones
\* included; its result is never negative.
C12_BackoffSchedule ==
    delay # -1 =>
        /\ delay >= 0
        /\ delay = CASE tries = 0 -> 10   [] tries = 1 -> 50   [] tries = 2 -> 100
                      [] tries = 3 -> 150  [] tries = 4 -> 200  [] tries = 5 -> 250
                      [] tries = 6 -> 500  [] tries = 7 -> 1000 [] tries = 8 -> 2000
                      [] OTHER -> 5000

\* C12, witness: the policy was called on a negative index and returned the ceiling.
C12_Witness == tries < 0 /\ delay = 5000

\* No caller is inside Disconnect's teardown and no manager inside its own.
TeardownCompleted ==
    /\ \A c \in Callers : api[c].pc \notin {"teardown", "teardownStarted", "teardownFlags"}
    /\ \A l \in Loops : mgr[l].pc \notin {"teardown", "teardownStarted", "teardownFlags"}

\* C13: whenever the session is not started (before Connect, or after a teardown has
\* completed) the endpoint handle is nil: no dial that was in flight during teardown
\* leaves a recorded endpoint behind.
C13_NoConnUnlessStarted ==
    ~started /\ ConnectReturned /\ TeardownCompleted => conn = 0

\* Message m is still queued, or in the hands of a writer that is about to write it.
Pending(m) ==
    \/ \E g \in Gens : \E i \in 1..Len(queue[g]) : queue[g][i] = m
    \/ \E l \in Loops : wr[l].pc \in {"recheck", "writeToConn", "WriteJSON"} /\ wr[l].msg = m

\* C14: a message the writer has taken from the queue is not lost: every message that
\* was enqueued and is no longer pending was written to the endpoint or reported
\* through OnWriteError.
C14_DequeuedNotLost ==
    \A m \in 1..sent :
        Pending(m) \/ (\E i \in 1..Len(written) : written[i] = m) \/ m \in onWriteError

\* Manager l is at a call of isClosing or connIsSet (lines 174, 124), setClosing (lines
\* 128, 143) or setConn (line 141), each of which acquires the state lock.
ManagerAcquiresLock(l) ==
    mgr[l].pc \in {"check", "closeConn", "setClosing", "setConnNil", "clearClosing"}

\* C15: no deadlock on the state lock: never does sendClose or sendReconnect hold the
\* lock, blocked on its channel send, while the manager is at an acquisition of that lock.
C15_NoLockDeadlock ==
    \A g \in Gens : blockedSenders(g) # {} => ~\E l \in Loops : ManagerAcquiresLock(l)

\* C16: the writer and the reader never invoke an endpoint operation on a nil handle:
\* the manager clearing the handle between their readiness check and their write or read
\* makes the operation fail, not dereference nil (Go panics on the nil handle).
C16_NoNilHandleUse ==
    panic \notin {"nil pointer dereference: w.conn.WriteJSON",
                  "nil pointer dereference: w.conn.ReadJSON"}

\* Manager l leaves position p of closeConn in this step.
Leaves(l, p) == mgr[l].pc = p /\ mgr'[l].pc # p

\* C17: the graceful close follows a fixed order when an endpoint is set: closing is set,
\* the endpoint is sent the close message and hard-closed (an error of the hard close
\* goes to OnConnError), the handle is cleared, OnConnClose is called, closing is cleared,
\* and on the close-signal path teardown follows; no failure skips a step.  With no
\* endpoint set closeConn changes nothing and calls no callback.
C17_CloseConnOrder ==
    [][\A l \in Loops :
         /\ Leaves(l, "closeConn") =>
               IF conn # 0
               THEN mgr'[l].pc = "setClosing" /\ UNCHANGED <<flags, hist>>
               ELSE mgr'[l].pc = afterCloseConn(l) /\ UNCHANGED <<flags, hist>>
         /\ Leaves(l, "setClosing") =>
               closing' /\ mgr'[l].pc = "Close" /\ UNCHANGED <<conn, hist>>
         /\ Leaves(l, "Close") =>
               /\ conn # 0 /\ conn \in epClosed' /\ mgr'[l].e = conn
               /\ onConnError' \in {onConnError, onConnError + 1}
               /\ mgr'[l].pc = "setConnNil"
               /\ UNCHANGED <<flags, onConnClose>>
         /\ Leaves(l, "setConnNil") =>
               conn' = 0 /\ mgr'[l].pc = "OnConnClose" /\ UNCHANGED <<closing, hist>>
         /\ Leaves(l, "OnConnClose") =>
               /\ mgr[l].e \in epClosed
               /\ onConnClose' = [onConnClose EXCEPT ![mgr[l].e] = @ + 1]
               /\ mgr'[l].pc = "clearClosing"
               /\ UNCHANGED flags
         /\ Leaves(l, "clearClosing") =>
               /\ ~closing'
               /\ mgr'[l].pc = IF mgr[l].k = "teardown" THEN "teardown" ELSE "top"
               /\ UNCHANGED <<conn, hist>>
         /\ panic' # "nil pointer dereference: w.conn.WriteMessage"]_vars

\* C17, witness: on the close-signal path the hard close failed (OnConnError without any
\* failed dial), and still the handle was cleared, OnConnClose called and teardown begun.
C17_Witness ==
    \E l \in Loops :
        /\ mgr[l].pc = "teardownStarted"
        /\ onConnError = 1 /\ reconnectAfter = <<>>
        /\ conn = 0 /\ onConnClose[1] = 1 /\ ~closing
        /\ panic = "none"

\* Reader l leaves position p in this step.
ReaderLeaves(l, p) == rd[l].pc = p /\ rd'[l].pc # p

ErrorObservedOn(e) ==
    \/ \E l \in Loops : wr[l].pc \in {"callSendReconnect", "sendReconnect"} /\ wr[l].e = e
    \/ \E l \in Loops : rd[l].pc \in {"err", "callSendReconnect", "sendReconnect"} /\ rd[l].e = e

\* Endpoint e is open and nobody has observed an error on it.
Healthy(e) == e # 0 /\ e \notin epClosed /\ ~ErrorObservedOn(e)

\* Manager l receives in this step the reconnect signal raised for an error on endpoint e.
ReceivesSignalFor(l, e) ==
    /\ mgr[l].pc = "select" /\ mgr'[l].pc = "closeConn" /\ mgr'[l].k = "loop"
    /\ \/ \E m \in Loops : wr[m].pc = "sendReconnect" /\ wr'[m].pc = "top" /\ wr[m].e = e
       \/ \E m \in Loops : rd[m].pc = "sendReconnect" /\ rd'[m].pc = "top" /\ rd[m].e = e

\* C19: a reconnect signal only closes the endpoint whose failure caused it.  The manager
\* never receives the signal of an error observed on an endpoint that is already closed
\* while the handle is a healthy, newer endpoint (which closeConn would then close).
C19_SignalClosesItsEndpoint ==
    [][\A l \in Loops : \A e \in Endpoints :
          ReceivesSignalFor(l, e) /\ e \in epClosed => ~(conn # e /\ Healthy(conn))]_vars

\* C20: every endpoint that stops working is eventually replaced.  Whenever a read on
\* endpoint e fails, for any reason including a normal closure (code 1000) by the peer,
\* the manager eventually closes that endpoint and the handler receives OnConnClose for
\* it (no Disconnect, fair scheduling), unless the process has ended in a panic (C16) or
\* the state lock is never released again (C15).
C20_DeadEndpointReplaced ==
    \/ <>[]locked
    \/ \A l \in Loops : \A e \in Endpoints :
          [](rd[l].pc = "err" /\ rd[l].e = e => <>(onConnClose[e] >= 1 \/ panic # "none"))

====
